---- MODULE Spec2Model ----
(***************************************************************************)
(* The incremental Rescorla-Wagner learner of discriminative_learning and  *)
(* the two drivers that memoise its matrices on disk:                      *)
(*   rescorla_wagner/ndl.py  ndl()  -> compute_activations()               *)
(*   ndl.py  discriminative_learner() -> ndl_compute() / ndl_load()        *)
(*                                                                         *)
(* Numbers.  alpha and beta are rationals an/ad and bn/bd, lambda is a     *)
(* positive integer.  A run over a corpus of N trials keeps every cell of  *)
(* the matrix as an integer numerator over Scale = (ad*bd)^N; the update   *)
(* learning_rate * (outcome_mask - total_v) is then an exact integer (the  *)
(* numerators after trial k are multiples of (ad*bd)^(N-k)), so the model  *)
(* computes in exact arithmetic what the code computes in float64.         *)
(***************************************************************************)
EXTENDS Integers, Sequences, FiniteSets, TLC

\* ------------------------------------------------------------- bounds
MaxTrials == 3          \* longest corpus of the learner specification
MaxDriverTrials == 2    \* longest short corpus of the driver specification
MaxCalls == 2           \* driver calls in one behaviour
LongLen == 20           \* length of the one long corpus of the driver specification

\* ------------------------------------------------------------- helpers
Range(s) == {s[k] : k \in DOMAIN s}

Max(S) == CHOOSE x \in S : \A y \in S : y <= x

Min(S) == CHOOSE x \in S : \A y \in S : x <= y

RECURSIVE Pow(_, _)
Pow(b, e) == IF e = 0 THEN 1 ELSE b * Pow(b, e - 1)

RECURSIVE SortedSeq(_)
SortedSeq(S) == IF S = {} THEN << >> ELSE <<Min(S)>> \o SortedSeq(S \ {Min(S)})

RECURSIVE SumSeq(_)
SumSeq(s) == IF s = << >> THEN 0 ELSE Head(s) + SumSeq(Tail(s))

\* ------------------------------------------------------------- inputs
\* A learning event: the cue symbols and the outcome symbols of corpus[0][i], corpus[1][i].
Trial(cs, os) == [cues |-> cs, outcomes |-> os]

T1 == Trial(<<"a", "b">>, <<"X">>)
T2 == Trial(<<"b", "c">>, <<"Y">>)
T3 == Trial(<<"c", "a", "c">>, << >>)
T4 == Trial(<<"a">>, <<"X", "Y">>)

ExampleCorpus == <<T1, T2>>

TrialSet == {T1, T2, T3, T4}

DriverTrialSet == {T1, T2}

SeqsUpTo(S, n) == UNION {[1..k -> S] : k \in 0..n}

LongCorpus == [k \in 1..LongLen |-> IF k % 2 = 1 THEN T1 ELSE T4]

LearnerCorpora == SeqsUpTo(TrialSet, MaxTrials)

DriverCorpora == SeqsUpTo(DriverTrialSet, MaxDriverTrials) \cup {LongCorpus}

\* alpha = an/ad, beta = bn/bd, lam = lambda
Param(an, ad, bn, bd, lam) == [an |-> an, ad |-> ad, bn |-> bn, bd |-> bd, lam |-> lam]

ExampleParams == Param(1, 10, 1, 10, 1)

HalfParams == Param(1, 1, 1, 2, 1)

UnitParams == Param(1, 1, 1, 1, 1)

WideParams == Param(1, 1, 1, 2, 2)

\* HalfParams with lam tripled (alpha and beta as they are)
TripleParams == Param(1, 1, 1, 2, 3)

\* UnitParams with alpha halved (beta and lam as they are)
AlphaHalfParams == Param(1, 2, 1, 1, 1)

LearnerParams == {ExampleParams, HalfParams, UnitParams, WideParams}

DriverParams == {HalfParams, UnitParams}

Drivers == {"ndl", "discriminative_learner"}

Procs == {"main"}

\* Two interpreter processes running the driver on the same input_file at the same time,
\* each with its own alpha and beta.
Workers == {"main", "worker"}

WorkerParams == [p \in Workers |-> IF p = "main" THEN HalfParams ELSE UnitParams]

NoFile == [kind |-> "nofile"]

\* ------------------------------------------------------------- indexer
CorpusCues(corpus) == UNION {Range(corpus[k].cues) : k \in DOMAIN corpus}

CorpusOutcomes(corpus) == UNION {Range(corpus[k].outcomes) : k \in DOMAIN corpus}

\* Mutant of Enumerations: the ids are handed out from 1.
Enumerations_from_one(S) ==
  {f \in [S -> 1..Cardinality(S)] : \A x \in S : \A y \in S : x # y => f[x] # f[y]}

\* enumerate(a_set): the ids 0..n-1 handed out in the set's iteration order, which for a
\* set of strings is any order (string hashes are salted per interpreter process).
Enumerations(S) ==
  {f \in [S -> 0..(Cardinality(S) - 1)] : \A x \in S : \A y \in S : x # y => f[x] # f[y]}

\* The pairs (cues2ids, outcomes2ids) a call of get_cues_and_outcomes can return.
get_cues_and_outcomes(corpus) ==
  Enumerations(CorpusCues(corpus)) \X Enumerations(CorpusOutcomes(corpus))

\* ------------------------------------------------------------- learner
\* learning_rate = alpha * beta, as a fraction num/den
learning_rate(prm) == [num |-> prm.an * prm.bn, den |-> prm.ad * prm.bd]

\* The common denominator of the cells of a run over N trials.
Scale(prm, total_utterances) == Pow(learning_rate(prm).den, total_utterances)

\* np.zeros((len(cues2ids), len(outcomes2ids)))
zeros(nc, no) == [r \in 0..(nc - 1) |-> [j \in 0..(no - 1) |-> 0]]

NumRows(w) == Cardinality(DOMAIN w)

\* trial_cues = set(corpus[0][i]); trial_outcomes = set(corpus[1][i])
trial_cues(trial) == Range(trial.cues)

trial_outcomes(trial) == Range(trial.outcomes)

\* Mutant of outcome_mask: lam at every column.
outcome_mask_all(trial, o2i, lam) == [j \in 0..(Cardinality(DOMAIN o2i) - 1) |-> lam]

\* Mutant of outcome_mask: a fixed target that does not follow lam.
outcome_mask_fixed(trial, o2i, lam) ==
  [j \in 0..(Cardinality(DOMAIN o2i) - 1) |->
     IF \E o \in trial_outcomes(trial) : o2i[o] = j THEN 8 ELSE 0]

\* outcome_mask: lam at the column of every outcome of the trial, 0 elsewhere
outcome_mask(trial, o2i, lam) ==
  [j \in 0..(Cardinality(DOMAIN o2i) - 1) |->
     IF \E o \in trial_outcomes(trial) : o2i[o] = j THEN lam ELSE 0]

\* Mutant of cue_mask: one index per occurrence of a cue in the trial's sequence.
cue_mask_per_occurrence(trial, c2i) == [k \in DOMAIN trial.cues |-> c2i[trial.cues[k]]]

\* cue_mask: the list of the row indices of the cues of the trial, one per element of
\* trial_cues (the order of a list built from a set does not matter to an exact sum)
cue_mask(trial, c2i) == SortedSeq({c2i[c] : c \in trial_cues(trial)})

\* np.sum(weight_matrix[cue_mask], axis=0): a row counts once per occurrence in the mask
total_v(w, mask, no) ==
  [j \in 0..(no - 1) |-> SumSeq([k \in DOMAIN mask |-> w[mask[k]][j]])]

\* Mutant of clamp: the activation is never bounded.
clamp_off(v, lam) == v

\* Mutant of exceeds: the test of the activation against lambda never succeeds.
exceeds_never(v, lam) == FALSE

\* total_v[total_v > lam].any(): some selected element is non-zero
exceeds(v, lam) == \E j \in DOMAIN v : v[j] > lam /\ v[j] # 0

\* if total_v[total_v > lam].any(): (warning printed) total_v[total_v > lam] = lam
clamp(v, lam) ==
  IF exceeds(v, lam)
  THEN [j \in DOMAIN v |-> IF v[j] > lam THEN lam ELSE v[j]]
  ELSE v

\* Mutant of delta_a: only the outcomes present in the trial are updated.
delta_a_present_only(om, v, lr) ==
  [j \in DOMAIN v |-> IF om[j] = 0 THEN 0 ELSE ((om[j] - v[j]) * lr.num) \div lr.den]

\* Mutant of delta_a: the change is applied twice.
delta_a_doubled(om, v, lr) == [j \in DOMAIN v |-> 2 * (((om[j] - v[j]) * lr.num) \div lr.den)]

\* delta_a = (outcome_mask - total_v) * learning_rate
delta_a(om, v, lr) == [j \in DOMAIN v |-> ((om[j] - v[j]) * lr.num) \div lr.den]

\* Mutant of scatter_add: the change is added to every row (weight_matrix += delta_a).
scatter_add_all(w, mask, d) ==
  [r \in DOMAIN w |-> [j \in DOMAIN d |-> w[r][j] + d[j]]]

\* cue_mask = list(set(cue_mask)); weight_matrix[cue_mask] += delta_a
scatter_add(w, mask, d) ==
  [r \in DOMAIN w |-> IF r \in Range(mask) THEN [j \in DOMAIN d |-> w[r][j] + d[j]] ELSE w[r]]

\* total_v as the loop body computes it for a trial, before the test against lambda
raw_total_v(w, trial, c2i, o2i) ==
  total_v(w, cue_mask(trial, c2i), Cardinality(DOMAIN o2i))

\* One pass of the body of the trial loop over weight_matrix; lam is lambda * Scale.
update(w, trial, c2i, o2i, lr, lam) ==
  LET om == outcome_mask(trial, o2i, lam)
      mask == cue_mask(trial, c2i)
      v == clamp(raw_total_v(w, trial, c2i, o2i), lam)
  IN  scatter_add(w, mask, delta_a(om, v, lr))

\* check_points = {int(np.floor(total_utterances / 100 * n)): n for n in indices}: a later
\* n replaces an earlier one with the same key.  (The float product equals the exact
\* total_utterances*n/100 for every corpus of fewer than 29 trials.)
CheckPointIndex(total_utterances, n) == (total_utterances * n) \div 100

check_points(total_utterances, idxs) ==
  [k \in {CheckPointIndex(total_utterances, n) : n \in idxs} |->
     Max({n \in idxs : CheckPointIndex(total_utterances, n) = k})]

\* ------------------------------------------------------------- files
\* np.save / np.load: the shape and the cells in row-major order
np_save(w, no) ==
  [kind |-> "npy", rows |-> NumRows(w), cols |-> no,
   data |-> [k \in 1..(NumRows(w) * no) |-> w[(k - 1) \div no][(k - 1) % no]]]

np_load(f) ==
  [r \in 0..(f.rows - 1) |-> [j \in 0..(f.cols - 1) |-> f.data[r * f.cols + j + 1]]]

\* json.dump / json.load of a dictionary from strings to integers: its members
json_dump(d) == [kind |-> "json", members |-> {<<k, d[k]>> : k \in DOMAIN d}]

json_load(f) ==
  [k \in {m[1] : m \in f.members} |-> (CHOOSE m \in f.members : m[1] = k)[2]]

\* The argument input_file as a relative path: the components of its directory part (none
\* for a bare file name) and its base name without the extension.
InputFile(dir, base) == [dir |-> dir, base |-> base]

InputFiles == {InputFile(<<"data">>, "corpus"), InputFile(<< >>, "corpus")}

\* The working directory of the process (an absolute path, not the root).
Cwd == <<"home">>

\* The directory, as an absolute path, where a computing call writes the two id files:
\* ndl: os.path.join(folder, 'cueIDs.json') with folder = splitext(input_file)[0];
\* discriminative_learner: file_path + '_cueIDs.json' with file_path = splitext(input_file)[0]
ids_written_at(drv, inp) ==
  IF drv = "ndl" THEN Cwd \o inp.dir \o <<inp.base>> ELSE Cwd \o inp.dir

\* The directory where a loading call opens them.  load(): os.path.dirname(filename) of the
\* matrix file, which is the folder.  ndl_load(): dirname + '/' + ..., where dirname is
\* os.path.dirname(output_files[100]): the empty string for a bare file name, which makes
\* the path '/<base>_cueIDs.json', a file of the root directory.
ids_read_at(drv, inp) ==
  IF drv = "ndl" THEN Cwd \o inp.dir \o <<inp.base>>
  ELSE IF inp.dir = << >> THEN << >> ELSE Cwd \o inp.dir

\* What open() of an id file finds at the path the loader builds: the file the runs write,
\* or nothing when the path names another place.
open_ids(drv, inp, f) == IF ids_read_at(drv, inp) = ids_written_at(drv, inp) THEN f ELSE NoFile

\* indices: np.linspace(10, 100, 10) in ndl, np.linspace(5, 100, 20) in
\* discriminative_learner, [100] when not longitudinal
indices(drv, lng) ==
  IF ~lng THEN {100}
  ELSE IF drv = "ndl" THEN {10 * k : k \in 1..10} ELSE {5 * k : k \in 1..20}

\* ------------------------------------------------------------- state
VARIABLES
  corpus,           \* the content of the encoded corpus, fixed during a behaviour
  input_file,       \* the path the driver is given: its directory part and its base name
  driver,           \* which of the two drivers is called: "ndl" or "discriminative_learner"
  callsLeft,        \* driver calls still allowed
  files,            \* files[n]: associationMatrix_<n>.npy, for the n whose file exists
  cueFile,          \* cueIDs.json, or NoFile
  outcomeFile,      \* outcomeIDs.json, or NoFile
  pc,               \* pc[p]: "idle", "trials" (in the trial loop), "save_ids" (matrices written)
  longitudinal,     \* argument of the running call
  params,           \* alpha, beta, lam of the running call
  cues2ids,         \* local of the running call
  outcomes2ids,     \* local of the running call
  weight_matrix,    \* the matrix the trial loop mutates
  i,                \* trials processed so far by the loop
  checkPoints,      \* check_points of the running call
  weight_matrices,  \* percentage -> what the dictionary entry refers to
  ret,              \* what the last finished call returned
  info,             \* history of the running / last call (requested, existed, updates,
                    \* writes, warnings printed)
  origin,           \* history: for every matrix file, the run that wrote it
  prev,             \* history: ret and info of the call before the last one
  curr_cues,        \* ndl_standard: the cues met so far by the running call
  curr_outcomes,    \* ndl_standard: the outcomes met so far by the running call
  disk              \* ndl_standard: the .json files it has opened for writing, by name

\* The state that only ndl_standard uses.
stdvars == <<curr_cues, curr_outcomes, disk>>

vars == <<corpus, input_file, driver, callsLeft, files, cueFile, outcomeFile, pc,
          longitudinal, params, cues2ids, outcomes2ids, weight_matrix, i, checkPoints,
          weight_matrices, ret, info, origin, prev, curr_cues, curr_outcomes, disk>>

None == [kind |-> "none"]

NoParams == Param(0, 1, 0, 1, 0)

Put(f, k, v) == [x \in (DOMAIN f) \cup {k} |-> IF x = k THEN v ELSE f[x]]

N == Len(corpus)

\* weight_matrices[k] = weight_matrix binds the key to the array object itself (no copy):
\* the entry is a reference to the matrix the loop goes on mutating.
snapshot(w) == [kind |-> "ref"]

\* The array a dictionary entry denotes when it is read.
Deref(entry, w) == IF entry.kind = "ref" THEN w ELSE entry.m

\* os.path.exists(f_path) for every requested file
existing(req, fs) == req \cap DOMAIN fs

\* ndl: missing_indices; discriminative_learner: `not file_exists(output_files)`
must_compute(req, fs) == existing(req, fs) # req

\* The percentages handed to the learner: ndl passes missing_indices,
\* discriminative_learner passes indices.
compute_indices(drv, req, fs) == IF drv = "ndl" THEN req \ existing(req, fs) ELSE req

\* The files the call reads before it decides: ndl loads every existing matrix (load() reads
\* both id files first); discriminative_learner loads only when all exist.
loads(drv, req, fs) == IF drv = "ndl" THEN existing(req, fs) ELSE
                       IF must_compute(req, fs) THEN {} ELSE req

Locals(p, st, lng, prm, c2i, o2i, w, k, cp, wm) ==
  /\ pc' = [pc EXCEPT ![p] = st]
  /\ longitudinal' = [longitudinal EXCEPT ![p] = lng]
  /\ params' = [params EXCEPT ![p] = prm]
  /\ cues2ids' = [cues2ids EXCEPT ![p] = c2i]
  /\ outcomes2ids' = [outcomes2ids EXCEPT ![p] = o2i]
  /\ weight_matrix' = [weight_matrix EXCEPT ![p] = w]
  /\ i' = [i EXCEPT ![p] = k]
  /\ checkPoints' = [checkPoints EXCEPT ![p] = cp]
  /\ weight_matrices' = [weight_matrices EXCEPT ![p] = wm]

Idle(p) == Locals(p, "idle", FALSE, NoParams, << >>, << >>, << >>, 0, << >>, << >>)

\* Nothing on disk, no call made yet.
InitState(P) ==
  /\ files = << >>
  /\ cueFile = NoFile
  /\ outcomeFile = NoFile
  /\ pc = [p \in P |-> "idle"]
  /\ longitudinal = [p \in P |-> FALSE]
  /\ params = [p \in P |-> NoParams]
  /\ cues2ids = [p \in P |-> << >>]
  /\ outcomes2ids = [p \in P |-> << >>]
  /\ weight_matrix = [p \in P |-> << >>]
  /\ i = [p \in P |-> 0]
  /\ checkPoints = [p \in P |-> << >>]
  /\ weight_matrices = [p \in P |-> << >>]
  /\ ret = [p \in P |-> None]
  /\ info = [p \in P |-> None]
  /\ origin = << >>
  /\ prev = [p \in P |-> None]
  /\ curr_cues = [p \in P |-> {}]
  /\ curr_outcomes = [p \in P |-> {}]
  /\ disk = << >>

InitProcs(P) ==
  /\ driver \in Drivers
  /\ InitState(P)

InitCommon == InitProcs(Procs)

Init ==
  InitCommon /\ corpus \in DriverCorpora /\ input_file \in InputFiles /\ callsLeft = MaxCalls

InitLearner ==
  /\ InitCommon
  /\ corpus \in LearnerCorpora
  /\ input_file = InputFile(<<"data">>, "corpus")
  /\ callsLeft = 1

\* ------------------------------------------------------------- driver
\* A call of the driver up to the point where it either returns the loaded matrices, fails
\* in load(), or has entered the learner (indexer run, zero matrix, check_points built).
Call(p, lng, prm) ==
  LET req == indices(driver, lng)
      toLoad == loads(driver, req, files)
      ci == compute_indices(driver, req, files)
      cue_file == open_ids(driver, input_file, cueFile)
      outcome_file == open_ids(driver, input_file, outcomeFile)
      inf == [kind |-> "call", requested |-> req, existed |-> existing(req, files),
              lng |-> lng, params |-> prm, computed |-> must_compute(req, files),
              idsExisted |-> (cue_file # NoFile /\ outcome_file # NoFile),
              updates |-> 0, writes |-> 0, warnings |-> 0, call |-> callsLeft]
  IN
  /\ pc[p] = "idle"
  /\ callsLeft > 0
  /\ callsLeft' = callsLeft - 1
  /\ prev' = [prev EXCEPT ![p] = [ret |-> ret[p], info |-> info[p]]]
  /\ info' = [info EXCEPT ![p] = inf]
  /\ UNCHANGED <<corpus, input_file, driver, files, cueFile, outcomeFile, origin>>
  /\ UNCHANGED stdvars
  /\ IF toLoad # {} /\ (cue_file = NoFile \/ outcome_file = NoFile)
     THEN \* json.load(open(cue_file)) raises: the call fails
          /\ ret' = [ret EXCEPT ![p] = [kind |-> "error"]]
          /\ Idle(p)
     ELSE IF ~must_compute(req, files)
     THEN /\ ret' = [ret EXCEPT ![p] =
                       [kind |-> "ok",
                        matrices |-> [n \in req |-> np_load(files[n])],
                        cues2ids |-> json_load(cue_file),
                        outcomes2ids |-> json_load(outcome_file)]]
          /\ Idle(p)
     ELSE \E ids \in get_cues_and_outcomes(corpus) :
          /\ ret' = [ret EXCEPT ![p] = None]
          /\ Locals(p, "trials", lng, prm, ids[1], ids[2],
                    zeros(Cardinality(DOMAIN ids[1]), Cardinality(DOMAIN ids[2])),
                    0, check_points(N, ci), << >>)

\* One iteration of the trial loop, the check-point bookkeeping at its end included.
TrialStep(p) ==
  /\ pc[p] = "trials"
  /\ i[p] < N
  /\ weight_matrix' = [weight_matrix EXCEPT ![p] =
        update(@, corpus[i[p] + 1], cues2ids[p], outcomes2ids[p],
               learning_rate(params[p]), params[p].lam * Scale(params[p], N))]
  /\ i' = [i EXCEPT ![p] = @ + 1]
  /\ weight_matrices' = [weight_matrices EXCEPT ![p] =
        IF (i[p] + 1) \in DOMAIN checkPoints[p]
        THEN Put(@, checkPoints[p][i[p] + 1], snapshot(weight_matrix'[p]))
        ELSE @]
  /\ info' = [info EXCEPT ![p].updates = @ + 1,
                          ![p].warnings =
                             IF exceeds(raw_total_v(weight_matrix[p], corpus[i[p] + 1],
                                                    cues2ids[p], outcomes2ids[p]),
                                        params[p].lam * Scale(params[p], N))
                             THEN @ + 1 ELSE @]
  /\ UNCHANGED <<corpus, input_file, driver, callsLeft, files, cueFile, outcomeFile, pc,
                 longitudinal, params, cues2ids, outcomes2ids, checkPoints, ret, origin,
                 prev>>
  /\ UNCHANGED stdvars

\* The learner has returned: np.save of every computed matrix whose file does not exist.
SaveMatrices(p) ==
  LET written == (DOMAIN weight_matrices[p]) \ DOMAIN files
      no == Cardinality(DOMAIN outcomes2ids[p])
  IN
  /\ pc[p] = "trials"
  /\ i[p] = N
  /\ files' = [n \in (DOMAIN files) \cup written |->
                 IF n \in written
                 THEN np_save(Deref(weight_matrices[p][n], weight_matrix[p]), no)
                 ELSE files[n]]
  /\ origin' = [n \in (DOMAIN origin) \cup written |->
                 IF n \in written
                 THEN [cues2ids |-> cues2ids[p],
                       outcomes2ids |-> outcomes2ids[p], params |-> params[p],
                       call |-> info[p].call]
                 ELSE origin[n]]
  /\ info' = [info EXCEPT ![p].writes = @ + Cardinality(written)]
  /\ pc' = [pc EXCEPT ![p] = "save_ids"]
  /\ UNCHANGED <<corpus, input_file, driver, callsLeft, cueFile, outcomeFile, longitudinal, params,
                 cues2ids, outcomes2ids, weight_matrix, i, checkPoints, weight_matrices,
                 ret, prev>>
  /\ UNCHANGED stdvars

\* json.dump of the two id dictionaries, then the return of the computing call.
SaveIds(p) ==
  /\ pc[p] = "save_ids"
  /\ cueFile' = json_dump(cues2ids[p])
  /\ outcomeFile' = json_dump(outcomes2ids[p])
  /\ info' = [info EXCEPT ![p].writes = @ + 2]
  /\ ret' = [ret EXCEPT ![p] =
               [kind |-> "ok",
                matrices |-> [n \in DOMAIN weight_matrices[p] |->
                                Deref(weight_matrices[p][n], weight_matrix[p])],
                cues2ids |-> cues2ids[p],
                outcomes2ids |-> outcomes2ids[p]]]
  /\ Idle(p)
  /\ UNCHANGED <<corpus, input_file, driver, callsLeft, files, origin, prev>>
  /\ UNCHANGED stdvars

Next ==
  \E p \in Procs :
    \/ \E lng \in BOOLEAN : \E prm \in DriverParams : Call(p, lng, prm)
    \/ TrialStep(p)
    \/ SaveMatrices(p)
    \/ SaveIds(p)

Spec == Init /\ [][Next]_vars

NextLearner ==
  \E p \in Procs :
    \/ \E lng \in BOOLEAN : \E prm \in LearnerParams : Call(p, lng, prm)
    \/ TrialStep(p)
    \/ SaveMatrices(p)
    \/ SaveIds(p)

SpecLearner == InitLearner /\ [][NextLearner]_vars

\* ------------------------------------------------------------- interrupted runs
\* The process of a running call ends (KeyboardInterrupt, kill) inside the trial loop or
\* between the np.save of the matrices and the json.dump of the id files: what it has
\* written stays on disk, nothing is returned.
Interrupt(p) ==
  /\ pc[p] \in {"trials", "save_ids"}
  /\ ret' = [ret EXCEPT ![p] = [kind |-> "killed"]]
  /\ Idle(p)
  /\ UNCHANGED <<corpus, input_file, driver, callsLeft, files, cueFile, outcomeFile, info,
                 origin, prev>>
  /\ UNCHANGED stdvars

InitKill ==
  /\ InitCommon
  /\ corpus \in SeqsUpTo(DriverTrialSet, MaxDriverTrials)
  /\ input_file = InputFile(<<"data">>, "corpus")
  /\ callsLeft = MaxCalls

NextKill == Next \/ \E p \in Procs : Interrupt(p)

SpecKill == InitKill /\ [][NextKill]_vars

\* ------------------------------------------------------------- concurrent runs
\* Each worker process calls the driver once on the common input_file.
InitWorkers ==
  /\ InitProcs(Workers)
  /\ corpus \in SeqsUpTo(DriverTrialSet, MaxDriverTrials)
  /\ input_file = InputFile(<<"data">>, "corpus")
  /\ callsLeft = Cardinality(Workers)

NextWorkers ==
  \E p \in Workers :
    \/ \E lng \in BOOLEAN : info[p] = None /\ Call(p, lng, WorkerParams[p])
    \/ TrialStep(p)
    \/ SaveMatrices(p)
    \/ SaveIds(p)

SpecWorkers == InitWorkers /\ [][NextWorkers]_vars

\* ------------------------------------------------------------- reference values
\* The matrix after the first k iterations of the trial loop, from the zero matrix.
RECURSIVE MatrixAfter(_, _, _, _, _)
MatrixAfter(cp, c2i, o2i, prm, k) ==
  IF k = 0
  THEN zeros(Cardinality(DOMAIN c2i), Cardinality(DOMAIN o2i))
  ELSE update(MatrixAfter(cp, c2i, o2i, prm, k - 1), cp[k], c2i, o2i,
              learning_rate(prm), prm.lam * Scale(prm, Len(cp)))

RECURSIVE SetSum(_, _)
SetSum(S, f) ==
  IF S = {} THEN 0
  ELSE LET x == CHOOSE y \in S : TRUE IN f[x] + SetSum(S \ {x}, f)

Abs(x) == IF x < 0 THEN 0 - x ELSE x

\* The sum, over the cells [c][o] with c a cue of the trial and o any outcome of the
\* vocabulary, of the absolute change between the matrices w and w2.
AppliedDelta(w, w2, trial, c2i, o2i) ==
  LET cells == Range(trial.cues) \X DOMAIN o2i
  IN  SetSum(cells, [x \in cells |-> Abs(w2[c2i[x[1]]][o2i[x[2]]] - w[c2i[x[1]]][o2i[x[2]]])])

\* The cells of two matrices over the same ids, as pairs <<row, column>>.
Cells(w) == {x \in (DOMAIN w) \X (UNION {DOMAIN w[r] : r \in DOMAIN w}) : x[2] \in DOMAIN w[x[1]]}

\* w = f * w2 for one factor f > 0 common to all cells.
Proportional(w, w2) ==
  /\ \A x \in Cells(w) :
       /\ w[x[1]][x[2]] * w2[x[1]][x[2]] >= 0
       /\ w[x[1]][x[2]] = 0 <=> w2[x[1]][x[2]] = 0
  /\ \A x \in Cells(w) : \A y \in Cells(w) :
       w[x[1]][x[2]] * w2[y[1]][y[2]] = w[y[1]][y[2]] * w2[x[1]][x[2]]

Finished(p) == pc[p] = "idle" /\ info[p].kind = "call"

Computed(p) == Finished(p) /\ ret[p].kind = "ok" /\ info[p].computed

\* Every requested percentage has a trial index of its own, none of them 0.
DistinctCheckPoints(req) ==
  \A n \in req : /\ CheckPointIndex(N, n) >= 1
                 /\ \A m \in req : m # n => CheckPointIndex(N, m) # CheckPointIndex(N, n)

\* ------------------------------------------------------------- claims
\* C1: every matrix a computing run returns under percentage n, and the file it wrote for
\* n, equals the matrix state after exactly floor(N*n/100) trials.
C1_CheckpointIsStateAtItsTrial ==
  \A p \in Procs :
    Computed(p) =>
      \A n \in DOMAIN ret[p].matrices :
        LET m == MatrixAfter(corpus, ret[p].cues2ids, ret[p].outcomes2ids,
                             info[p].params, CheckPointIndex(N, n))
        IN  /\ ret[p].matrices[n] = m
            /\ (n \in DOMAIN origin /\ origin[n].call = info[p].call)
                 => np_load(files[n]) = m

\* C2: when a matrix file exists for every requested percentage at the call, the call
\* returns at once with exactly the stored matrices and id mappings, having run no trial
\* update and written no file.
C2_FullMemoization ==
  \A p \in Procs :
    (info[p].kind = "call" /\ info[p].existed = info[p].requested) =>
      /\ pc[p] = "idle"
      /\ info[p].updates = 0
      /\ info[p].writes = 0
      /\ ret[p].kind = "ok"
      /\ DOMAIN ret[p].matrices = info[p].requested
      /\ \A n \in info[p].requested : ret[p].matrices[n] = np_load(files[n])
      /\ ret[p].cues2ids = json_load(cueFile)
      /\ ret[p].outcomes2ids = json_load(outcomeFile)

\* C3: a call that finds a strict, non-empty subset of the requested matrix files returns
\* a newly computed matrix for every requested percentage (stated for corpora long enough
\* that every percentage has its own trial index).
C3_PartialRecomputesAll ==
  \A p \in Procs :
    (/\ Computed(p)
     /\ info[p].existed # {}
     /\ DistinctCheckPoints(info[p].requested)) =>
      \A n \in info[p].requested : n \in DOMAIN ret[p].matrices

\* C4: the dictionary a call returns has exactly one entry for each requested percentage
\* (stated for the corpora of at least one trial).
C4_OneEntryPerPercentage ==
  \A p \in Procs :
    (Finished(p) /\ ret[p].kind = "ok" /\ N >= 1) => DOMAIN ret[p].matrices = info[p].requested

\* C5: a trial with cue set C and outcome set O adds alpha*beta*(target_j - V_j) to every
\* cell [c][j], c in C, j any outcome of the vocabulary, with V_j the pre-trial sum over C
\* of [c][j], replaced by lambda when above it, and target_j = lambda if j in O else 0.
C5_TrialUpdate ==
  [][\A p \in Procs :
       (pc[p] = "trials" /\ i'[p] = i[p] + 1) =>
         LET t == corpus[i[p] + 1]
             C == Range(t.cues)
             O == Range(t.outcomes)
             w == weight_matrix[p]
             lam == params[p].lam * Scale(params[p], N)
             lr == learning_rate(params[p])
             raw(o) == SetSum(C, [c \in C |-> w[cues2ids[p][c]][outcomes2ids[p][o]]])
             V(o) == IF raw(o) > lam THEN lam ELSE raw(o)
             target(o) == IF o \in O THEN lam ELSE 0
         IN  \A c \in C : \A o \in CorpusOutcomes(corpus) :
               lr.den * (weight_matrix'[p][cues2ids[p][c]][outcomes2ids[p][o]]
                          - w[cues2ids[p][c]][outcomes2ids[p][o]])
                 = lr.num * (target(o) - V(o))]_vars

\* The trial just processed found a raw total activation above lambda.
C5_Witness ==
  \E p \in Procs :
    /\ pc[p] = "trials"
    /\ i[p] >= 1
    /\ LET before == MatrixAfter(corpus, cues2ids[p], outcomes2ids[p], params[p], i[p] - 1)
           no == Cardinality(DOMAIN outcomes2ids[p])
           v == total_v(before, cue_mask(corpus[i[p]], cues2ids[p]), no)
       IN  /\ \E j \in DOMAIN v : v[j] > params[p].lam * Scale(params[p], N)
           /\ weight_matrix[p] # before

\* C6: for the two-trial example corpus with alpha = beta = 0.1 and lambda = 1 the matrix
\* after both trials is a = [X: 0.01, Y: 0], b = [X: 0.0099, Y: 0.01], c = [X: -0.0001,
\* Y: 0.01] (cells compared in ten-thousandths).
C6_ExampleFinalMatrix ==
  \A p \in Procs :
    (/\ corpus = ExampleCorpus
     /\ params[p] = ExampleParams
     /\ pc[p] \in {"trials", "save_ids"}
     /\ i[p] = 2) =>
      LET cell(c, o) == weight_matrix[p][cues2ids[p][c]][outcomes2ids[p][o]] * 10000
          s == Scale(params[p], N)
      IN  /\ cell("a", "X") = 100 * s /\ cell("a", "Y") = 0
          /\ cell("b", "X") = 99 * s  /\ cell("b", "Y") = 100 * s
          /\ cell("c", "X") = (0 - 1) * s /\ cell("c", "Y") = 100 * s

C6_Witness ==
  \E p \in Procs :
    /\ corpus = ExampleCorpus
    /\ params[p] = ExampleParams
    /\ pc[p] = "save_ids"
    /\ i[p] = 2

\* C7: a trial leaves the row of every cue that is not in the trial's cue set unchanged.
C7_AbsentRowsUnchanged ==
  [][\A p \in Procs :
       (pc[p] = "trials" /\ i'[p] = i[p] + 1) =>
         \A c \in CorpusCues(corpus) \ Range(corpus[i[p] + 1].cues) :
           weight_matrix'[p][cues2ids[p][c]] = weight_matrix[p][cues2ids[p][c]]]_vars

\* The trial just processed changed the matrix while an absent cue holds a non-zero row.
C7_Witness ==
  \E p \in Procs :
    /\ pc[p] = "trials"
    /\ i[p] >= 2
    /\ weight_matrix[p] #
         MatrixAfter(corpus, cues2ids[p], outcomes2ids[p], params[p], i[p] - 1)
    /\ \E c \in CorpusCues(corpus) \ Range(corpus[i[p]].cues) :
         \E j \in DOMAIN weight_matrix[p][cues2ids[p][c]] :
           weight_matrix[p][cues2ids[p][c]][j] # 0

\* C8: between driver runs, loading any persisted matrix returns it with exactly the cue
\* and outcome id mappings of the run that computed it.
C8_ConsistentTriple ==
  (\A p \in Procs : pc[p] = "idle") =>
    \A n \in DOMAIN files :
      (cueFile # NoFile /\ outcomeFile # NoFile) =>
        /\ json_load(cueFile) = origin[n].cues2ids
        /\ json_load(outcomeFile) = origin[n].outcomes2ids

\* C9: two runs that compute the final matrix from scratch with the same corpus and the
\* same alpha, beta, lambda return identical final matrices and identical id mappings.
C9_Deterministic ==
  \A p \in Procs :
    (/\ Computed(p)
     /\ prev[p].ret.kind = "ok"
     /\ prev[p].info.computed
     /\ prev[p].info.params = info[p].params
     /\ 100 \in DOMAIN ret[p].matrices
     /\ 100 \in DOMAIN prev[p].ret.matrices) =>
      /\ ret[p].cues2ids = prev[p].ret.cues2ids
      /\ ret[p].outcomes2ids = prev[p].ret.outcomes2ids
      /\ ret[p].matrices[100] = prev[p].ret.matrices[100]

\* C10: when a computing run has completed, a matrix file exists for every requested
\* percentage, so that the next call with the same arguments reuses them all (stated for
\* the corpora of at least one trial).
C10_AllPersistedAfterRun ==
  \A p \in Procs :
    (Computed(p) /\ N >= 1) => \A n \in info[p].requested : n \in DOMAIN files

\* C11: a trial whose raw total activation exceeds lambda for some outcome prints the
\* warning, changes the cells of those outcomes by alpha*beta*(target_j - lambda) and
\* leaves the run in the trial loop; a run that has warned ends normally, having
\* processed every trial of the corpus.
C11_ClampDoesNotStopRun ==
  [][\A p \in Procs :
       /\ (pc[p] = "trials" /\ i'[p] = i[p] + 1) =>
            LET t == corpus[i[p] + 1]
                C == Range(t.cues)
                w == weight_matrix[p]
                lam == params[p].lam * Scale(params[p], N)
                lr == learning_rate(params[p])
                raw(o) == SetSum(C, [c \in C |-> w[cues2ids[p][c]][outcomes2ids[p][o]]])
                over == {o \in CorpusOutcomes(corpus) : raw(o) > lam}
                target(o) == IF o \in Range(t.outcomes) THEN lam ELSE 0
            IN  /\ info'[p].warnings = info[p].warnings + (IF over # {} THEN 1 ELSE 0)
                /\ pc'[p] = "trials"
                /\ \A c \in C : \A o \in over :
                     lr.den * (weight_matrix'[p][cues2ids[p][c]][outcomes2ids[p][o]]
                                - w[cues2ids[p][c]][outcomes2ids[p][o]])
                       = lr.num * (target(o) - lam)
       /\ (pc'[p] = "idle" /\ info'[p].kind = "call" /\ info'[p].warnings > 0) =>
            /\ ret'[p].kind = "ok"
            /\ info'[p].updates = N]_vars

\* A finished run that warned at a trial before its last one.
C11_Witness ==
  \E p \in Procs :
    /\ Computed(p)
    /\ info[p].warnings >= 1
    /\ info[p].updates = N
    /\ \E k \in 1..(N - 1) :
         exceeds(raw_total_v(MatrixAfter(corpus, ret[p].cues2ids, ret[p].outcomes2ids,
                                         info[p].params, k - 1),
                             corpus[k], ret[p].cues2ids, ret[p].outcomes2ids),
                 info[p].params.lam * Scale(info[p].params, N))

\* C12: a call that finds a requested matrix file, the cue-id file or the outcome-id file
\* missing does not fail: it computes, and returns a matrix for every requested percentage
\* (the last part stated for corpora long enough that every percentage has its own trial
\* index).
C12_MissingFileFallsBack ==
  \A p \in Procs :
    (/\ Finished(p)
     /\ ret[p].kind # "killed"
     /\ (info[p].existed # info[p].requested \/ ~info[p].idsExisted)) =>
      /\ ret[p].kind = "ok"
      /\ info[p].computed
      /\ DistinctCheckPoints(info[p].requested) =>
           \A n \in info[p].requested : n \in DOMAIN ret[p].matrices

\* C13: no step of a run changes the content of a matrix file that exists, and a run that
\* found some requested matrix file on disk (so does not regenerate the whole set) leaves
\* the content of an existing cue-id file and outcome-id file as it was.
C13_ExistingFilesKept ==
  [][\A p \in Procs :
       /\ \A n \in DOMAIN files : n \in DOMAIN files' /\ files'[n] = files[n]
       /\ (pc[p] # "idle" /\ info[p].existed # {}) =>
            /\ cueFile # NoFile => cueFile' = cueFile
            /\ outcomeFile # NoFile => outcomeFile' = outcomeFile]_vars

\* C14: when two runs with different alpha/beta have overlapped (each made its existence
\* checks on the empty folder) and both have returned, every matrix file of a percentage a
\* run requested was computed with that run's parameters and under the id mappings that run
\* returned (stated for the corpora of at least one trial).
C14_ConcurrentRunsIsolated ==
  (/\ N >= 1
   /\ \A p \in Workers : Finished(p) /\ ret[p].kind = "ok" /\ info[p].existed = {}) =>
    \A p \in Workers : \A n \in info[p].requested \cap DOMAIN files :
      /\ origin[n].params = info[p].params
      /\ origin[n].cues2ids = ret[p].cues2ids
      /\ origin[n].outcomes2ids = ret[p].outcomes2ids

\* C15: the cue mapping and the outcome mapping of a computing call have as keys exactly
\* the symbols occurring in the trials of the corpus, and pairwise distinct values that
\* form exactly {0, ..., n-1}; for the empty corpus both mappings are empty and the call
\* goes on without error.
C15_IndexerBijection ==
  \A p \in Procs :
    LET symbols(field) == {x \in {"a", "b", "c", "X", "Y"} :
                            \E k \in 1..N : \E m \in 1..Len(corpus[k][field]) :
                              corpus[k][field][m] = x}
        indexing(f, S) ==
          /\ DOMAIN f = S
          /\ \A x \in S : \A y \in S : x # y => f[x] # f[y]
          /\ {f[x] : x \in S} = 0..(Cardinality(S) - 1)
    IN  /\ pc[p] # "idle" =>
             /\ indexing(cues2ids[p], symbols("cues"))
             /\ indexing(outcomes2ids[p], symbols("outcomes"))
        /\ Computed(p) =>
             /\ indexing(ret[p].cues2ids, symbols("cues"))
             /\ indexing(ret[p].outcomes2ids, symbols("outcomes"))
        /\ (info[p].kind = "call" /\ N = 0) =>
             /\ ret[p].kind # "error"
             /\ pc[p] # "idle" => cues2ids[p] = << >> /\ outcomes2ids[p] = << >>

\* The indexer has run on a corpus with three distinct cues and two distinct outcomes, one
\* cue written twice in a trial.
C15_Witness ==
  \E p \in Procs :
    /\ pc[p] = "trials"
    /\ i[p] = 0
    /\ T3 \in Range(corpus)
    /\ Cardinality(DOMAIN cues2ids[p]) = 3
    /\ Cardinality(DOMAIN outcomes2ids[p]) = 2
    /\ cues2ids[p]["a"] = 2

C17_SaveLoadRoundTrip ==
  \A p \in Procs :
    (/\ Finished(p)
     /\ ~info[p].computed
     /\ prev[p].ret.kind = "ok"
     /\ prev[p].info.computed) =>
      /\ ret[p].kind = "ok"
      /\ \A n \in DOMAIN ret[p].matrices :
           (/\ n \in DOMAIN origin
            /\ origin[n].call = prev[p].info.call
            /\ n \in DOMAIN prev[p].ret.matrices) =>
             \A r \in DOMAIN prev[p].ret.matrices[n] :
               \A j \in DOMAIN prev[p].ret.matrices[n][r] :
                 ret[p].matrices[n][r][j] = prev[p].ret.matrices[n][r][j]
      /\ ret[p].cues2ids = prev[p].ret.cues2ids
      /\ ret[p].outcomes2ids = prev[p].ret.outcomes2ids

\* C18: a call with longitudinal true requests exactly the 20 percentages 5, 10, ..., 100,
\* a call with longitudinal false exactly the percentage 100.
C18_RequestedPercentages ==
  \A p \in Procs :
    info[p].kind = "call" =>
      info[p].requested =
        IF info[p].lng THEN {n \in 1..100 : n % 5 = 0} ELSE {100}

\* C19 (as stated): in a run with 0 < alpha*beta <= 1 the raw total activation V_j computed
\* at the start of a trial does not exceed lambda for any outcome j.
C19_RawActivationBelowLambda ==
  \A p \in Procs :
    (/\ pc[p] = "trials"
     /\ i[p] < N
     /\ 0 < learning_rate(params[p]).num
     /\ learning_rate(params[p]).num <= learning_rate(params[p]).den) =>
      LET C == Range(corpus[i[p] + 1].cues)
      IN  \A o \in CorpusOutcomes(corpus) :
            SetSum(C, [c \in C |-> weight_matrix[p][cues2ids[p][c]][outcomes2ids[p][o]]])
              <= params[p].lam * Scale(params[p], N)

\* C19 (amended): the raw V_j computed at the start of a trial does not exceed lambda when
\* alpha*beta times the number of distinct cues of the trial is at most 1 and the cue set
\* of the trial is equal to, or disjoint from, the cue set of every earlier trial.
C19_BelowLambdaForSeparateCueSets ==
  \A p \in Procs :
    (pc[p] = "trials" /\ i[p] < N) =>
      LET C == Range(corpus[i[p] + 1].cues)
          lr == learning_rate(params[p])
      IN  (/\ 0 < lr.num
           /\ lr.num * Cardinality(C) <= lr.den
           /\ \A k \in 1..i[p] :
                Range(corpus[k].cues) = C \/ Range(corpus[k].cues) \cap C = {}) =>
            \A o \in CorpusOutcomes(corpus) :
              SetSum(C, [c \in C |-> weight_matrix[p][cues2ids[p][c]][outcomes2ids[p][o]]])
                <= params[p].lam * Scale(params[p], N)

\* A trial is about to be processed whose two cues occurred together before and whose raw
\* V_j has reached lambda exactly.
C19_Witness ==
  \E p \in Procs :
    /\ pc[p] = "trials"
    /\ i[p] >= 1
    /\ i[p] < N
    /\ LET C == Range(corpus[i[p] + 1].cues)
           lr == learning_rate(params[p])
       IN  /\ Cardinality(C) = 2
           /\ lr.num * 2 = lr.den
           /\ \A k \in 1..i[p] : Range(corpus[k].cues) = C
           /\ \E o \in CorpusOutcomes(corpus) :
                SetSum(C, [c \in C |-> weight_matrix[p][cues2ids[p][c]][outcomes2ids[p][o]]])
                  = params[p].lam * Scale(params[p], N)

\* C20 (as stated): the sum of |delta_j| a trial applies over all pairs (c, j), c a cue of
\* the trial and j any outcome, is at most alpha * beta * lambda * (number of outcomes).
C20_AppliedDeltaBound ==
  [][\A p \in Procs :
       (pc[p] = "trials" /\ i'[p] = i[p] + 1) =>
         learning_rate(params[p]).den
           * AppliedDelta(weight_matrix[p], weight_matrix'[p], corpus[i[p] + 1],
                          cues2ids[p], outcomes2ids[p])
         <= learning_rate(params[p]).num * params[p].lam * Scale(params[p], N)
              * Cardinality(CorpusOutcomes(corpus))]_vars

\* C20 (amended): when no raw V_j of the trial is negative, that sum is at most
\* alpha * beta * lambda * (number of outcomes) * (number of distinct cues of the trial).
C20_AppliedDeltaBoundPerCue ==
  [][\A p \in Procs :
       (/\ pc[p] = "trials"
        /\ i'[p] = i[p] + 1
        /\ \A o \in CorpusOutcomes(corpus) :
             SetSum(Range(corpus[i[p] + 1].cues),
                    [c \in Range(corpus[i[p] + 1].cues) |->
                       weight_matrix[p][cues2ids[p][c]][outcomes2ids[p][o]]]) >= 0) =>
         learning_rate(params[p]).den
           * AppliedDelta(weight_matrix[p], weight_matrix'[p], corpus[i[p] + 1],
                          cues2ids[p], outcomes2ids[p])
         <= learning_rate(params[p]).num * params[p].lam * Scale(params[p], N)
              * Cardinality(CorpusOutcomes(corpus))
              * Cardinality(Range(corpus[i[p] + 1].cues))]_vars

\* The trial just processed has two distinct cues and applied, in all, exactly
\* alpha * beta * lambda * (number of outcomes) * 2, with two outcomes in the vocabulary.
C20_Witness ==
  \E p \in Procs :
    /\ pc[p] = "trials"
    /\ i[p] >= 2
    /\ Cardinality(Range(corpus[i[p]].cues)) = 2
    /\ Cardinality(CorpusOutcomes(corpus)) = 2
    /\ learning_rate(params[p]).den
         * AppliedDelta(MatrixAfter(corpus, cues2ids[p], outcomes2ids[p], params[p], i[p] - 1),
                        weight_matrix[p], corpus[i[p]], cues2ids[p], outcomes2ids[p])
       = learning_rate(params[p]).num * params[p].lam * Scale(params[p], N) * 2 * 2

\* C21 (as stated): a trial whose outcome set is empty leaves no cell [c][j], c a cue of the
\* trial, larger than it was before the trial.
C21_EmptyOutcomesNeverIncrease ==
  [][\A p \in Procs :
       (/\ pc[p] = "trials"
        /\ i'[p] = i[p] + 1
        /\ Range(corpus[i[p] + 1].outcomes) = {}) =>
         \A c \in Range(corpus[i[p] + 1].cues) : \A o \in CorpusOutcomes(corpus) :
           weight_matrix'[p][cues2ids[p][c]][outcomes2ids[p][o]]
             <= weight_matrix[p][cues2ids[p][c]][outcomes2ids[p][o]]]_vars

\* C21 (amended): a trial whose outcome set is empty leaves no cell [c][j], c a cue of the
\* trial, larger than before for the outcomes j whose raw V_j is not negative.
C21_EmptyOutcomesNoIncreaseIfNonNegative ==
  [][\A p \in Procs :
       (/\ pc[p] = "trials"
        /\ i'[p] = i[p] + 1
        /\ Range(corpus[i[p] + 1].outcomes) = {}) =>
         LET C == Range(corpus[i[p] + 1].cues)
         IN  \A o \in CorpusOutcomes(corpus) :
               SetSum(C, [c \in C |-> weight_matrix[p][cues2ids[p][c]][outcomes2ids[p][o]]])
                 >= 0 =>
                 \A c \in C :
                   weight_matrix'[p][cues2ids[p][c]][outcomes2ids[p][o]]
                     <= weight_matrix[p][cues2ids[p][c]][outcomes2ids[p][o]]]_vars

\* The trial just processed has no outcome, met a positive V_j and lowered a cell.
C21_Witness ==
  \E p \in Procs :
    /\ pc[p] = "trials"
    /\ i[p] >= 2
    /\ Range(corpus[i[p]].outcomes) = {}
    /\ LET before == MatrixAfter(corpus, cues2ids[p], outcomes2ids[p], params[p], i[p] - 1)
           v == raw_total_v(before, corpus[i[p]], cues2ids[p], outcomes2ids[p])
       IN  \E j \in DOMAIN v :
             /\ v[j] > 0
             /\ \E c \in Range(corpus[i[p]].cues) :
                  weight_matrix[p][cues2ids[p][c]][j] < before[cues2ids[p][c]][j]

\* C22: with alpha = beta = 0.1 and lambda = 1, the matrix after the two trials of the
\* example corpus, taken in either order, differs from the matrix the other order gives;
\* in the swapped order it is a = [X: 0.01, Y: -0.0001], b = [X: 0.01, Y: 0.0099],
\* c = [X: 0, Y: 0.01] (cells compared in ten-thousandths).
C22_OrderMatters ==
  \A p \in Procs :
    (/\ corpus \in {<<T1, T2>>, <<T2, T1>>}
     /\ params[p] = ExampleParams
     /\ pc[p] \in {"trials", "save_ids"}
     /\ i[p] = 2) =>
      LET cell(c, o) == weight_matrix[p][cues2ids[p][c]][outcomes2ids[p][o]] * 10000
          s == Scale(params[p], N)
      IN  /\ weight_matrix[p] # MatrixAfter(<<corpus[2], corpus[1]>>, cues2ids[p],
                                            outcomes2ids[p], params[p], 2)
          /\ corpus = <<T2, T1>> =>
               /\ cell("a", "X") = 100 * s /\ cell("a", "Y") = (0 - 1) * s
               /\ cell("b", "X") = 100 * s /\ cell("b", "Y") = 99 * s
               /\ cell("c", "X") = 0 /\ cell("c", "Y") = 100 * s

\* The run over the swapped example corpus has processed both trials.
C22_Witness ==
  \E p \in Procs :
    /\ corpus = <<T2, T1>>
    /\ params[p] = ExampleParams
    /\ pc[p] = "save_ids"
    /\ i[p] = 2

\* C23: the final matrix of a run with alpha = 1, beta = 1, lambda = 1 equals, up to one
\* positive factor common to all cells, the final matrix the same corpus gives with
\* alpha = 1/2 and the same beta and lambda.
C23_AlphaOnlyScales ==
  \A p \in Procs :
    (/\ params[p] = UnitParams
     /\ pc[p] \in {"trials", "save_ids"}
     /\ i[p] = N) =>
      Proportional(weight_matrix[p],
                   MatrixAfter(corpus, cues2ids[p], outcomes2ids[p], AlphaHalfParams, N))

C25_LoadedMatricesHaveOwnParams ==
  \A p \in Procs :
    (Finished(p) /\ ret[p].kind = "ok" /\ ~info[p].computed) =>
      \A n \in DOMAIN ret[p].matrices : origin[n].params = info[p].params

\* The outcomes that occur in the first k trials of the corpus.
Experienced(k) == UNION {Range(corpus[t].outcomes) : t \in 1..k}

\* C26: after trial i of a run, every cell of the column of an outcome that occurs in none
\* of the trials 1..i is still 0.
C26_UnseenOutcomeColumnsZero ==
  \A p \in Procs :
    pc[p] = "trials" =>
      \A o \in CorpusOutcomes(corpus) \ Experienced(i[p]) :
        \A r \in DOMAIN weight_matrix[p] : weight_matrix[p][r][outcomes2ids[p][o]] = 0

\* A trial has been learned (some cell is not 0) while an outcome of the corpus has not
\* occurred yet, and the cues of the last trial are cues of the trial that will bring it.
C26_Witness ==
  \E p \in Procs :
    /\ pc[p] = "trials"
    /\ i[p] >= 1
    /\ i[p] < N
    /\ \E o \in CorpusOutcomes(corpus) \ Experienced(i[p]) :
         /\ o \in Range(corpus[i[p] + 1].outcomes)
         /\ Range(corpus[i[p]].cues) \cap Range(corpus[i[p] + 1].cues) # {}
    /\ \E r \in DOMAIN weight_matrix[p] : \E j \in DOMAIN weight_matrix[p][r] :
         weight_matrix[p][r][j] # 0

\* C27: when the raw V_j of a trial exceeds lambda for an outcome j of the trial, the trial
\* leaves column j of every row as it was, and the sum of the stored cells of column j over
\* the cues of the trial is still above lambda after the trial.
C27_ClampLeavesColumnUnchanged ==
  [][\A p \in Procs :
       (/\ pc[p] = "trials"
        /\ i'[p] = i[p] + 1) =>
         LET trial == corpus[i[p] + 1]
             lam == params[p].lam * Scale(params[p], N)
             v == raw_total_v(weight_matrix[p], trial, cues2ids[p], outcomes2ids[p])
         IN  \A o \in trial_outcomes(trial) :
               v[outcomes2ids[p][o]] > lam =>
                 /\ \A r \in DOMAIN weight_matrix[p] :
                      weight_matrix'[p][r][outcomes2ids[p][o]]
                        = weight_matrix[p][r][outcomes2ids[p][o]]
                 /\ raw_total_v(weight_matrix'[p], trial, cues2ids[p],
                                outcomes2ids[p])[outcomes2ids[p][o]] > lam]_vars

\* The trial just processed met a raw V_j above lambda for one of its outcomes.
C27_Witness ==
  \E p \in Procs :
    /\ pc[p] = "trials"
    /\ i[p] >= 2
    /\ LET trial == corpus[i[p]]
           before == MatrixAfter(corpus, cues2ids[p], outcomes2ids[p], params[p], i[p] - 1)
           v == raw_total_v(before, trial, cues2ids[p], outcomes2ids[p])
       IN  \E o \in trial_outcomes(trial) :
             /\ v[outcomes2ids[p][o]] > params[p].lam * Scale(params[p], N)
             /\ weight_matrix[p] = before

\* ------------------------------------------------------------- ndl_standard
\* The learner of src/ndl_standard.py: the associations are a dictionary of dictionaries,
\* weight_matrix[outcome][cue], with the same fixed-point cells as the matrix above.

\* Counter(corpus[0][i]): every cue of the trial with the number of its occurrences
Counter(s) == [c \in Range(s) |-> Cardinality({k \in DOMAIN s : s[k] = c})]

\* d[outcome][cue]; a missing entry is set to 0 by the except KeyError branch
weight(d, outcome, cue) ==
  IF outcome \in DOMAIN d /\ cue \in DOMAIN d[outcome] THEN d[outcome][cue] ELSE 0

\* v_total: the weights of the cues of the trial, each times its count, bounded by lam
compute_total_activation(d, outcome, tc, lam) ==
  LET v_total == SetSum(DOMAIN tc, [c \in DOMAIN tc |-> weight(d, outcome, c) * tc[c]])
  IN  IF v_total > lam THEN lam ELSE v_total

\* delta_v = ab * (lam - v_total), with lam = 0 for an outcome that is not in the trial
delta_v(d, outcome, tc, tos, ab, lam) ==
  (((IF outcome \in tos THEN lam ELSE 0) - compute_total_activation(d, outcome, tc, lam))
     * ab.num) \div ab.den

\* d[outcome][cue] += delta_v for every key of the Counter
update_outcome_weights(d, outcome, tc, tos, ab, lam) ==
  LET old == IF outcome \in DOMAIN d THEN d[outcome] ELSE << >>
      dv == delta_v(d, outcome, tc, tos, ab, lam)
  IN  Put(d, outcome, [c \in (DOMAIN old) \cup DOMAIN tc |->
                         IF c \in DOMAIN tc THEN weight(d, outcome, c) + dv ELSE old[c]])

\* if d[outcome][cue] > 1: raise ValueError.  one is the number 1 in the unit of the cells.
raises_ValueError(d, outcome, tc, tos, ab, lam, one) ==
  \E c \in DOMAIN tc : update_outcome_weights(d, outcome, tc, tos, ab, lam)[outcome][c] > one

\* for outcome in curr_outcomes: weight_matrix = update_outcome_weights(...).  The updates
\* of different outcomes touch different inner dictionaries.
learn_trial(d, outs, trial, ab, lam) ==
  [o \in (DOMAIN d) \cup outs |->
     IF o \in outs
     THEN update_outcome_weights(d, o, Counter(trial.cues), trial_outcomes(trial), ab, lam)[o]
     ELSE d[o]]

\* indices: np.linspace(5, 100, 20) (floats) or [100] (an int)
std_indices(lng) == IF lng THEN {5 * k : k \in 1..20} ELSE {100}

\* file_path + '_associationsDict_' + str(idx) + '.json' and the two others: str() of a
\* float ends in '.0', str() of the int 100 does not.
file_name(kind, lng, idx) == <<kind, idx, IF lng THEN ".0" ELSE "">>

FileKinds == {"associationsDict", "cues", "outcomes"}

\* file_exists: every one of the three files of every index is a file
file_exists(lng, dsk) ==
  \A idx \in std_indices(lng) : \A kind \in FileKinds : file_name(kind, lng, idx) \in DOMAIN dsk

\* ndl_load: each json.load replaces the result, so what is returned is what the files of
\* the last index hold; a file without content makes json.load raise.
ndl_load(lng, dsk) ==
  LET last == Max(std_indices(lng))
  IN  IF \E idx \in std_indices(lng) : \E kind \in FileKinds :
           dsk[file_name(kind, lng, idx)].kind = "empty"
      THEN [kind |-> "JSONDecodeError"]
      ELSE [kind |-> "ok",
            matrices |-> dsk[file_name("associationsDict", lng, last)].value,
            cues |-> dsk[file_name("cues", lng, last)].value,
            outcomes |-> dsk[file_name("outcomes", lng, last)].value]

\* check_points = {np.floor(total_utterances / float(100) * n): n for n in
\* np.linspace(5, 100, 20)}, whatever indices is
std_check_points(total_utterances) == check_points(total_utterances, {5 * k : k \in 1..20})

StdLocals(p, cs, os) ==
  /\ curr_cues' = [curr_cues EXCEPT ![p] = cs]
  /\ curr_outcomes' = [curr_outcomes EXCEPT ![p] = os]

\* discriminative_learner up to the trial loop, or to the return of what ndl_load gives
StdCall(p, lng, prm) ==
  /\ pc[p] = "idle"
  /\ callsLeft > 0
  /\ callsLeft' = callsLeft - 1
  /\ prev' = [prev EXCEPT ![p] = [ret |-> ret[p], info |-> info[p]]]
  /\ info' = [info EXCEPT ![p] =
                [kind |-> "call", requested |-> std_indices(lng), lng |-> lng,
                 params |-> prm, computed |-> ~file_exists(lng, disk), updates |-> 0,
                 loopDone |-> FALSE, recorded |-> << >>, final |-> << >>, written |-> {},
                 call |-> callsLeft]]
  /\ StdLocals(p, {}, {})
  /\ UNCHANGED <<corpus, input_file, driver, files, cueFile, outcomeFile, origin, disk>>
  /\ IF file_exists(lng, disk)
     THEN /\ ret' = [ret EXCEPT ![p] = ndl_load(lng, disk)]
          /\ Idle(p)
     ELSE /\ ret' = [ret EXCEPT ![p] = None]
          /\ Locals(p, "std_trials", lng, prm, << >>, << >>, << >>, 0,
                    std_check_points(N), << >>)

\* One iteration of the trial loop: the update of every outcome met so far, which may
\* raise, and the check-point bookkeeping (`if i in check_points`, i counting from 0).
StdTrialStep(p) ==
  LET trial == corpus[i[p] + 1]
      outs == curr_outcomes[p] \cup trial_outcomes(trial)
      ab == learning_rate(params[p])
      lam == params[p].lam * Scale(params[p], N)
  IN
  /\ pc[p] = "std_trials"
  /\ i[p] < N
  /\ UNCHANGED <<corpus, input_file, driver, callsLeft, files, cueFile, outcomeFile, origin,
                 prev, disk>>
  /\ IF \E o \in outs : raises_ValueError(weight_matrix[p], o, Counter(trial.cues),
                                          trial_outcomes(trial), ab, lam, Scale(params[p], N))
     THEN /\ ret' = [ret EXCEPT ![p] = [kind |-> "ValueError"]]
          /\ info' = info
          /\ Idle(p)
          /\ StdLocals(p, {}, {})
     ELSE /\ weight_matrix' = [weight_matrix EXCEPT ![p] = learn_trial(@, outs, trial, ab, lam)]
          /\ i' = [i EXCEPT ![p] = @ + 1]
          /\ weight_matrices' = [weight_matrices EXCEPT ![p] =
                IF i[p] \in DOMAIN checkPoints[p]
                THEN Put(@, checkPoints[p][i[p]], snapshot(weight_matrix'[p]))
                ELSE @]
          /\ StdLocals(p, curr_cues[p] \cup trial_cues(trial), outs)
          /\ info' = [info EXCEPT ![p].updates = @ + 1]
          /\ UNCHANGED <<pc, longitudinal, params, cues2ids, outcomes2ids, checkPoints, ret>>

\* The loop over weight_matrices after the last trial.  Its first key k is the percentage
\* recorded first.  output_files[k] raises KeyError when k is not one of indices; otherwise
\* the dictionary of weights is written, the file of the cues is opened for writing and
\* json.dump raises TypeError on curr_cues, which is a set.
StdSave(p) ==
  LET K == DOMAIN weight_matrices[p]
      k == Min(K)
      lng == longitudinal[p]
      done == [info[p] EXCEPT !.loopDone = TRUE,
                              !.final = weight_matrix[p],
                              !.recorded = [n \in K |-> Deref(weight_matrices[p][n],
                                                                weight_matrix[p])]]
  IN
  /\ pc[p] = "std_trials"
  /\ i[p] = N
  /\ UNCHANGED <<corpus, input_file, driver, callsLeft, files, cueFile, outcomeFile, origin,
                 prev>>
  /\ Idle(p)
  /\ StdLocals(p, {}, {})
  /\ IF K = {}
     THEN /\ ret' = [ret EXCEPT ![p] = [kind |-> "ok", matrices |-> << >>, cues |-> << >>,
                                        outcomes |-> << >>]]
          /\ info' = [info EXCEPT ![p] = done]
          /\ disk' = disk
     ELSE IF k \notin std_indices(lng)
     THEN /\ ret' = [ret EXCEPT ![p] = [kind |-> "KeyError"]]
          /\ info' = [info EXCEPT ![p] = done]
          /\ disk' = disk
     ELSE /\ ret' = [ret EXCEPT ![p] = [kind |-> "TypeError"]]
          /\ info' = [info EXCEPT ![p] = [done EXCEPT !.written = {k}]]
          /\ disk' = Put(Put(disk, file_name("associationsDict", lng, k),
                             [kind |-> "json",
                              value |-> Deref(weight_matrices[p][k], weight_matrix[p])]),
                         file_name("cues", lng, k), [kind |-> "empty"])

InitStandard ==
  /\ driver = "ndl_standard"
  /\ InitState(Procs)
  /\ corpus \in LearnerCorpora
  /\ input_file = InputFile(<<"data">>, "corpus")
  /\ callsLeft = MaxCalls

NextStandard ==
  \E p \in Procs :
    \/ \E lng \in BOOLEAN : \E prm \in LearnerParams : StdCall(p, lng, prm)
    \/ StdTrialStep(p)
    \/ StdSave(p)

SpecStandard == InitStandard /\ [][NextStandard]_vars

\* C28: after each trial of a run of the dictionary-based learner, d[outcome][cue] (0 for a
\* missing entry) equals the cell [id(cue)][id(outcome)] of the matrix the vectorized
\* learner has after the same trials with the same alpha, beta and lambda, whatever the ids
\* and whether or not a cue occurs more than once in a trial.
C28_SameAssociations ==
  \A p \in Procs :
    pc[p] = "std_trials" =>
      \A ids \in get_cues_and_outcomes(corpus) :
        \A c \in CorpusCues(corpus) : \A o \in CorpusOutcomes(corpus) :
          weight(weight_matrix[p], o, c)
            = MatrixAfter(corpus, ids[1], ids[2], params[p], i[p])[ids[1][c]][ids[2][o]]

\* C29: a computing run of the dictionary-based learner that went through every trial of a
\* non-empty corpus has recorded a snapshot under key 100 that holds the weights after the
\* last trial; when not longitudinal it has written the snapshot of key 100 and no other,
\* and it has ended without error.
C29_StandardRecordsAndPersists100 ==
  \A p \in Procs :
    (Finished(p) /\ info[p].computed /\ info[p].loopDone /\ N >= 1) =>
      /\ 100 \in DOMAIN info[p].recorded
      /\ info[p].recorded[100] = info[p].final
      /\ ~info[p].lng => (ret[p].kind = "ok" /\ info[p].written = {100})

\* C30: in the dictionary-based learner, a trial whose update leaves a cue-outcome weight
\* above 1 does not end the run: the loop goes on to the next trial.
C30_HeavyWeightDoesNotAbort ==
  [][\A p \in Procs :
       (/\ pc[p] = "std_trials"
        /\ i[p] < N
        /\ \E o \in curr_outcomes[p] \cup trial_outcomes(corpus[i[p] + 1]) :
             raises_ValueError(weight_matrix[p], o, Counter(corpus[i[p] + 1].cues),
                               trial_outcomes(corpus[i[p] + 1]), learning_rate(params[p]),
                               params[p].lam * Scale(params[p], N), Scale(params[p], N))) =>
         (pc'[p] = "std_trials" /\ i'[p] = i[p] + 1)]_vars

====
